---- MODULE Spec2Model ----
(***************************************************************************)
(* Model of app.js: the REST API for tweets and accounts.                  *)
(*                                                                         *)
(* A request travels through the middleware chain in registration order:   *)
(* express.static, bodyParser, logger, version gate, content negotiation   *)
(* gate, the routes, the catch-all 404 and the error handlers.             *)
(*                                                                         *)
(* JavaScript values are tagged records [k, v].  Entities live in a heap   *)
(* (address -> object) so that "the live account object" and "the id of    *)
(* the account" are different values.  The store (./blackbox/store.js) is  *)
(* not part of the sources; it is modelled from its contract.              *)
(***************************************************************************)
EXTENDS Integers, Sequences, FiniteSets, TLC

(***************************************************************************)
(* Bounds of the model.                                                    *)
(***************************************************************************)
\* number of requests received in one behaviour
MaxReqs == 2
\* and in the behaviours in which progress is checked
MaxLiveReqs == 1

(***************************************************************************)
(* JavaScript values.                                                      *)
(***************************************************************************)
Undef == [k |-> "undefined", v |-> 0]
Num(n) == [k |-> "number", v |-> n]
Str(s) == [k |-> "string", v |-> s]
\* a reference to the heap object at address o
Ref(o) == [k |-> "object", v |-> o]
\* an array, s a sequence of values
Arr(s) == [k |-> "array", v |-> s]
\* a fresh object literal, f a function from field names to values
Obj(f) == [k |-> "literal", v |-> f]
\* an exception raised while evaluating
Throw(m) == [k |-> "throw", v |-> m]
\* "http://localhost:3000/" + coll + "/" + id + tail
Url(coll, id, tail) == [k |-> "url", v |-> <<coll, id, tail>>]

IsThrow(x) == x.k = "throw"

EmptyObj == [f \in {} |-> Undef]

\* value.field  (property read; a read on undefined raises a TypeError)
Get(h, x, f) ==
    CASE x.k = "throw" -> x
      [] x.k = "undefined" -> Throw("TypeError")
      [] x.k = "object" -> IF f \in DOMAIN h[x.v] THEN h[x.v][f] ELSE Undef
      [] x.k = "literal" -> IF f \in DOMAIN x.v THEN x.v[f] ELSE Undef
      [] OTHER -> Undef

\* the own enumerable properties of a value, as Object.assign reads them
OwnProps(h, x) ==
    CASE x.k = "object" -> h[x.v]
      [] x.k = "literal" -> x.v
      [] OTHER -> EmptyObj

\* Object.assign(target, a, b): later sources win
ObjectAssign(target, a, b) ==
    [f \in DOMAIN target \cup DOMAIN a \cup DOMAIN b |->
        IF f \in DOMAIN b THEN b[f]
        ELSE IF f \in DOMAIN a THEN a[f]
        ELSE target[f]]

(***************************************************************************)
(* Representation mapper (app.js, lines 77-114).                            *)
(***************************************************************************)
tweetJSON_SendsAccountObject(h, tweet) ==
    LET acc == Get(h, tweet, "account")
        aid == Get(h, acc, "id")
    IN  IF IsThrow(aid) THEN aid
        ELSE Obj(ObjectAssign(EmptyObj, OwnProps(h, tweet),
                 [href |-> Url("tweets", Get(h, tweet, "id"), ""),
                  account |-> acc,
                  accounthref |-> Url("accounts", aid, "")]))

\* (a name bound over a one-element set holds a value that is computed
\* once; the name of a LET is computed again wherever it is used)
tweetJSON(h, tweet) ==
    CHOOSE j \in
        {IF IsThrow(aid) THEN aid
         ELSE Obj(ObjectAssign(EmptyObj, OwnProps(h, t),
                  [href |-> Url("tweets", Get(h, t, "id"), ""),
                   account |-> aid,
                   accounthref |-> Url("accounts", aid, "")])) :
            t \in {tweet}, aid \in {Get(h, Get(h, tweet, "account"), "id")}} : TRUE

\* tweets.map(tweetJSON): the callback is applied from the first element
\* on, the results are collected in that order, and the first exception
\* ends the call
RECURSIVE MapTweetJSON(_, _, _)
MapTweetJSON(h, s, acc) ==
    IF s = <<>> THEN Arr(acc)
    ELSE LET y == tweetJSON(h, Head(s))
         IN  IF IsThrow(y) THEN y ELSE MapTweetJSON(h, Tail(s), Append(acc, y))

\* a TypeError unless tweets is an array
tweetCollectionJSON(h, tweets) ==
    CASE tweets.k = "throw" -> tweets
      [] tweets.k = "array" -> MapTweetJSON(h, tweets.v, <<>>)
      [] OTHER -> Throw("TypeError")

accountJSON_KeepsOwnTweets(h, account) ==
    LET id == Get(h, account, "id")
        ts == tweetCollectionJSON(h, Get(h, account, "tweets"))
    IN  IF IsThrow(id) THEN id
        ELSE IF IsThrow(ts) THEN ts
        ELSE Obj(ObjectAssign(EmptyObj,
                 [tweetshref |-> Url("accounts", id, "/tweets"),
                  tweets |-> ts,
                  href |-> Url("accounts", id, "")],
                 OwnProps(h, account)))

accountJSON(h, account) ==
    CHOOSE j \in
        {IF IsThrow(id) THEN id
         ELSE IF IsThrow(ts) THEN ts
         ELSE Obj(ObjectAssign(EmptyObj, OwnProps(h, a),
                  [tweetshref |-> Url("accounts", id, "/tweets"),
                   tweets |-> ts,
                   href |-> Url("accounts", id, "")])) :
            a \in {account}, id \in {Get(h, account, "id")},
            ts \in {tweetCollectionJSON(h, Get(h, account, "tweets"))}} : TRUE

\* accounts.map(accountJSON)
RECURSIVE MapAccountJSON(_, _, _)
MapAccountJSON(h, s, acc) ==
    IF s = <<>> THEN Arr(acc)
    ELSE LET y == accountJSON(h, Head(s))
         IN  IF IsThrow(y) THEN y ELSE MapAccountJSON(h, Tail(s), Append(acc, y))

accountCollectionJSON(h, accounts) ==
    CASE accounts.k = "throw" -> accounts
      [] accounts.k = "array" -> MapAccountJSON(h, accounts.v, <<>>)
      [] OTHER -> Throw("TypeError")

(***************************************************************************)
(* The store (./blackbox/store.js), from its contract: select, insert,      *)
(* replace, remove on the collections "tweets" and "accounts".              *)
(* st = [heap, mem, counter]: mem[kind] is the ordered sequence of the      *)
(* addresses of the stored entities, counter the next id to assign.         *)
(***************************************************************************)
Kinds == {"tweets", "accounts"}
\* fields that hold references to other entities
Relational == {"account", "tweets"}
FirstFreeId == 105
\* an id no entity ever has
MissingId == 999

SeqRange(s) == {s[i] : i \in 1..Len(s)}

Holds(st, kind, id) == {o \in SeqRange(st.mem[kind]) : st.heap[o]["id"] = id}

\* select(kind) and select(kind, id); a call with id undefined is the call
\* without id
select(st, kind, id) ==
    IF id = Undef
    THEN Arr([i \in 1..Len(st.mem[kind]) |-> Ref(st.mem[kind][i])])
    ELSE IF Holds(st, kind, id) = {} THEN Throw("no such element")
    ELSE Ref(CHOOSE o \in Holds(st, kind, id) : TRUE)

\* insert(kind, element): the element gets a fresh id and is stored
insert(st, kind, element) ==
    LET a == st.counter
        obj == ObjectAssign(EmptyObj, element, [id |-> Num(a)])
    IN  [st |-> [heap |-> (a :> obj) @@ st.heap,
                 mem |-> [st.mem EXCEPT ![kind] = Append(@, a)],
                 counter |-> a + 1],
         id |-> Num(a)]

\* replace(kind, id, fields): the entity's non-relational fields are
\* overwritten in place; it keeps its id and its references
replace(st, kind, id, fields) ==
    IF Holds(st, kind, id) = {} THEN [st |-> st, out |-> Throw("no such element")]
    ELSE LET o == CHOOSE x \in Holds(st, kind, id) : TRUE
             old == st.heap[o]
             kept == [f \in DOMAIN old \cap (Relational \cup {"id"}) |-> old[f]]
             new == [f \in DOMAIN fields \ (Relational \cup {"id"}) |-> fields[f]]
         IN  [st |-> [st EXCEPT !.heap[o] = ObjectAssign(EmptyObj, new, kept)],
              out |-> Undef]

RemoveAt(s, i) == [j \in 1..(Len(s) - 1) |-> IF j < i THEN s[j] ELSE s[j + 1]]

\* remove(kind, id): the entity leaves its collection
remove(st, kind, id) ==
    IF Holds(st, kind, id) = {} THEN [st |-> st, out |-> Throw("no such element")]
    ELSE LET i == CHOOSE j \in 1..Len(st.mem[kind]) :
                      st.heap[st.mem[kind][j]]["id"] = id
         IN  [st |-> [st EXCEPT !.mem[kind] = RemoveAt(@, i)], out |-> Undef]

\* the store after a restart: tweets 101 and 102, accounts 103 and 104
InitStore ==
    [heap |-> (101 :> [id |-> Num(101), text |-> Str("a"), account |-> Ref(103)])
           @@ (102 :> [id |-> Num(102), text |-> Str("a"), account |-> Ref(104)])
           @@ (103 :> [id |-> Num(103), text |-> Str("a"), tweets |-> Arr(<<Ref(101)>>)])
           @@ (104 :> [id |-> Num(104), text |-> Str("a"), tweets |-> Arr(<<Ref(102)>>)]),
     mem |-> [tweets |-> <<101, 102>>, accounts |-> <<103, 104>>],
     counter |-> FirstFreeId]

(***************************************************************************)
(* res.json(x): JSON.stringify walks the value; it drops the properties    *)
(* that are undefined and raises a TypeError on a circular structure.      *)
(***************************************************************************)
RECURSIVE Serialize(_, _, _)
Serialize(h, x, seen) ==
    LET Fields(obj, below) ==
            CHOOSE y \in
                {IF \E f \in DOMAIN w : IsThrow(w[f])
                 THEN w[CHOOSE f \in DOMAIN w : IsThrow(w[f])]
                 ELSE Obj([f \in {g \in DOMAIN w : w[g] # Undef} |-> w[f]]) :
                     w \in {[f \in DOMAIN obj |-> Serialize(h, obj[f], below)]}} : TRUE
    IN  CASE x.k = "object" ->
               IF x.v \in seen THEN Throw("circular structure")
               ELSE Fields(h[x.v], seen \cup {x.v})
          [] x.k = "literal" -> Fields(x.v, seen)
          [] x.k = "array" ->
               CHOOSE y \in
                   {IF \E i \in DOMAIN w : IsThrow(w[i])
                    THEN w[CHOOSE i \in DOMAIN w : IsThrow(w[i])]
                    ELSE Arr(w) :
                        w \in {[i \in 1..Len(x.v) |-> Serialize(h, x.v[i], seen)]}} : TRUE
          [] OTHER -> x

(***************************************************************************)
(* Requests.                                                               *)
(***************************************************************************)
Methods == {"GET", "POST", "PUT", "DELETE"}
\* the route patterns, a file of the public directory, and a path that no
\* route matches
StaticFile == "/index.html"
Paths == {"/tweets", "/tweets/:id", "/accounts", "/accounts/:id",
          "/accounts/:id/tweets", StaticFile, "/unknown"}
\* Accept-Version: absent, the supported version, others
Versions == {Undef, Str("1.0"), Str("2.0")}
\* a header value is undefined or a string, given as its sequence of tokens
ContentTypes == {Undef, Str(<<"application/json", "; charset=utf-8">>),
                 Str(<<"text/plain">>)}
Accepts == {Undef, Str(<<"application/json">>), Str(<<"text/html">>)}
\* a header, a parameter or a body that no stage has read yet
Unread == [k |-> "unread", v |-> 0]

\* /application\/json/.test(x): x is turned into a string and searched
RegexTestJson(x) ==
    /\ x.k = "string"
    /\ \E i \in 1..Len(x.v) : x.v[i] = "application/json"

\* req.accepts('json'): without an Accept header every type is acceptable
AcceptsJson(x) ==
    \/ x = Undef
    \/ /\ x.k = "string"
       /\ \E i \in 1..Len(x.v) : x.v[i] \in {"application/json", "*/*"}

AccountIds(st) == {st.heap[o]["id"] : o \in SeqRange(st.mem["accounts"])}
\* the ids a client may put into the URL
ParamIds(st) == {Num(i) : i \in 101..(st.counter - 1)} \cup {Num(MissingId)}
\* the JSON bodies a client may send to the tweet routes: without an
\* account, with the id of an account, with an id that no account has
TweetBodies(st) ==
    {[text |-> Str("b")]}
    \cup {[text |-> Str("b"), account |-> i] : i \in AccountIds(st) \cup {Num(MissingId)}}
\* and to the account routes: without tweets, with no tweet, with a tweet id
AccountBodies ==
    {[text |-> Str("b")]}
    \cup {[text |-> Str("b"), tweets |-> t] : t \in {Arr(<<>>), Arr(<<Num(101)>>)}}

NoReq == [method |-> "-", path |-> "-", version |-> Unread, ct |-> Unread,
          accept |-> Unread, id |-> Unread, body |-> Unread]
NoResp == [status |-> 0, body |-> Undef, by |-> "-"]
NoErr == [status |-> Undef, message |-> "-"]

AllSlots == {1, 2}
Slots == {1}

(***************************************************************************)
(* The route handlers (app.js, lines 116-181) as functions of the store    *)
(* and the request: the store afterwards, the store operations called, and *)
(* the outcome (a response, or the exception that ended the handler).      *)
(***************************************************************************)
Response(status, body) == [k |-> "response", status |-> status, body |-> body]

\* res.status(status).json(x)
SendJson(h, status, x) ==
    CHOOSE y \in {IF IsThrow(s) THEN s ELSE Response(status, s) :
                     s \in {IF IsThrow(v) THEN v ELSE Serialize(h, v, {}) : v \in {x}}} : TRUE

\* body.f, where body is the parsed request body
Field(body, f) == IF f \in DOMAIN body THEN body[f] ELSE Undef

GetTweets(st) ==
    LET tweets == select(st, "tweets", Undef)
    IN  [st |-> st, ops |-> <<"select">>,
         out |-> SendJson(st.heap, 200, tweetCollectionJSON(st.heap, tweets))]

PostTweets_KeepsRawAccountId(st, body) ==
    LET account == select(st, "accounts", Field(body, "account"))
        ins == insert(st, "tweets", body)
        storedTweet == select(ins.st, "tweets", ins.id)
    IN  IF IsThrow(account)
        THEN [st |-> st, ops |-> <<"select">>, out |-> account]
        ELSE [st |-> ins.st, ops |-> <<"select", "insert", "select">>,
              out |-> SendJson(ins.st.heap, 201, tweetJSON(ins.st.heap, storedTweet))]

PostTweets(st, body) ==
    LET account == select(st, "accounts", Field(body, "account"))
        tweet == ObjectAssign(EmptyObj, body, [account |-> account])
        ins == insert(st, "tweets", tweet)
        storedTweet == select(ins.st, "tweets", ins.id)
    IN  IF IsThrow(account)
        THEN [st |-> st, ops |-> <<"select">>, out |-> account]
        ELSE [st |-> ins.st, ops |-> <<"select", "insert", "select">>,
              out |-> SendJson(ins.st.heap, 201, tweetJSON(ins.st.heap, storedTweet))]

GetTweet_TakesTweetOut(st, id) ==
    LET tweet == select(st, "tweets", id)
        rm == remove(st, "tweets", id)
    IN  [st |-> rm.st, ops |-> <<"select", "remove">>,
         out |-> SendJson(st.heap, 200, tweetJSON(st.heap, tweet))]

GetTweet(st, id) ==
    LET tweet == select(st, "tweets", id)
    IN  [st |-> st, ops |-> <<"select">>,
         out |-> SendJson(st.heap, 200, tweetJSON(st.heap, tweet))]

DeleteTweet_OnlyAnswers(st, id) ==
    LET rm == remove(st, "tweets", id)
    IN  [st |-> st, ops |-> <<"remove">>,
         out |-> IF IsThrow(rm.out) THEN rm.out ELSE Response(200, Undef)]

DeleteTweet(st, id) ==
    LET rm == remove(st, "tweets", id)
    IN  [st |-> rm.st, ops |-> <<"remove">>,
         out |-> IF IsThrow(rm.out) THEN rm.out ELSE Response(200, Undef)]

PutTweet(st, id, body) ==
    LET rp == replace(st, "tweets", id, body)
    IN  [st |-> rp.st, ops |-> <<"replace">>,
         out |-> IF IsThrow(rp.out) THEN rp.out ELSE Response(200, Undef)]

GetAccounts(st) ==
    LET accounts == select(st, "accounts", Undef)
    IN  [st |-> st, ops |-> <<"select">>,
         out |-> SendJson(st.heap, 200, accountCollectionJSON(st.heap, accounts))]

PostAccounts(st, body) ==
    LET ins == insert(st, "accounts", body)
        account == select(ins.st, "accounts", ins.id)
    IN  [st |-> ins.st, ops |-> <<"insert", "select">>,
         out |-> SendJson(ins.st.heap, 201, accountJSON(ins.st.heap, account))]

GetAccount(st, id) ==
    LET account == select(st, "accounts", id)
    IN  [st |-> st, ops |-> <<"select">>,
         out |-> SendJson(st.heap, 200, accountJSON(st.heap, account))]

DeleteAccount(st, id) ==
    LET rm == remove(st, "accounts", id)
    IN  [st |-> rm.st, ops |-> <<"remove">>,
         out |-> IF IsThrow(rm.out) THEN rm.out ELSE Response(200, Undef)]

GetAccountTweets(st, id) ==
    LET account == select(st, "accounts", id)
    IN  [st |-> st, ops |-> <<"select">>,
         out |-> SendJson(st.heap, 200,
                          tweetCollectionJSON(st.heap, Get(st.heap, account, "tweets")))]

PutAccount(st, id, body) ==
    LET rp == replace(st, "accounts", id, body)
    IN  [st |-> rp.st, ops |-> <<"replace">>,
         out |-> IF IsThrow(rp.out) THEN rp.out ELSE Response(200, Undef)]

\* the (method, path) pairs that have a route
Routes == {<<"GET", "/tweets">>, <<"POST", "/tweets">>, <<"GET", "/tweets/:id">>,
           <<"DELETE", "/tweets/:id">>, <<"PUT", "/tweets/:id">>,
           <<"GET", "/accounts">>, <<"POST", "/accounts">>, <<"GET", "/accounts/:id">>,
           <<"DELETE", "/accounts/:id">>, <<"GET", "/accounts/:id/tweets">>,
           <<"PUT", "/accounts/:id">>}

(***************************************************************************)
(* State.                                                                  *)
(***************************************************************************)
VARIABLES
    store,   \* the store: [heap, mem, counter]
    env,     \* app.get('env'), fixed at startup
    pc,      \* per request slot: the stage that runs next
    req,     \* per slot: the request, as far as the stages have read it
    resp,    \* per slot: the response sent
    err,     \* per slot: the error handed to next(err)
    cur,     \* the slot whose synchronous code is running, 0: the loop is idle
    nreq,    \* requests received so far
    trace,   \* per slot: the stages that have run for the request
    logged,  \* per slot: what the logger wrote for the request
    ops,     \* per slot: the store operations the request has called
    store0   \* per slot: the store when the request arrived

vars == <<store, env, pc, req, resp, err, cur, nreq, trace, logged, ops, store0>>

Init ==
    /\ store = InitStore
    /\ env \in {"development", "production"}
    /\ pc = [r \in AllSlots |-> "idle"]
    /\ req = [r \in AllSlots |-> NoReq]
    /\ resp = [r \in AllSlots |-> NoResp]
    /\ err = [r \in AllSlots |-> NoErr]
    /\ cur = 0
    /\ nreq = 0
    /\ trace = [r \in AllSlots |-> <<>>]
    /\ logged = [r \in AllSlots |-> <<>>]
    /\ ops = [r \in AllSlots |-> <<>>]
    /\ store0 = [r \in AllSlots |-> InitStore]

RouteStages == {m \o " " \o p : <<m, p>> \in Routes}
RouteStage(q) == q.method \o " " \o q.path
Ran(r, stage) == \E i \in 1..Len(trace[r]) : trace[r][i] = stage
RanRoute(r) == \E i \in 1..Len(trace[r]) : trace[r][i] \in RouteStages

\* the middleware in the order of registration (app.use, lines 26-62);
\* "router" stands for the routes and the catch-all behind them
Chain_GatesSwapped ==
    <<"static", "bodyParser", "logger", "contentGate", "versionGate", "router">>

Chain == <<"static", "bodyParser", "logger", "versionGate", "contentGate", "router">>

\* the stage next() leads to
After(stage) == Chain[(CHOOSE i \in 1..Len(Chain) : Chain[i] = stage) + 1]

\* a request arrives: the loop is idle, and the request takes the first
\* free slot
Receive(r) ==
    /\ pc[r] \in {"idle", "done"}
    /\ cur = 0
    /\ \A s \in AllSlots : s < r => pc[s] \notin {"idle", "done"}
    /\ nreq < MaxReqs
    /\ \E m \in Methods, p \in Paths, v \in Versions :
           req' = [req EXCEPT ![r] = [NoReq EXCEPT !.method = m, !.path = p,
                                                    !.version = v]]
    /\ pc' = [pc EXCEPT ![r] = Chain[1]]
    /\ resp' = [resp EXCEPT ![r] = NoResp]
    /\ err' = [err EXCEPT ![r] = NoErr]
    /\ trace' = [trace EXCEPT ![r] = <<>>]
    /\ logged' = [logged EXCEPT ![r] = <<>>]
    /\ ops' = [ops EXCEPT ![r] = <<>>]
    /\ store0' = [store0 EXCEPT ![r] = store]
    /\ nreq' = nreq + 1
    /\ UNCHANGED <<store, env, cur>>

\* what a middleware does at its end: o.send is the status it sends (0: it
\* sends nothing), o.next whether it calls next().  The first response
\* written is the one the client gets.
End(r, stage, o, body) ==
    /\ resp' = [resp EXCEPT ![r] =
                   IF o.send # 0 /\ @ = NoResp
                   THEN [status |-> o.send, body |-> body, by |-> stage]
                   ELSE @]
    /\ pc' = [pc EXCEPT ![r] = IF o.next THEN After(stage) ELSE "done"]
    /\ trace' = [trace EXCEPT ![r] = Append(@, stage)]

Sends(status) == [send |-> status, next |-> FALSE]
CallsNext == [send |-> 0, next |-> TRUE]

\* the stage `stage` of slot r fails with error e: the error handlers run next
Fail(r, stage, e) ==
    /\ err' = [err EXCEPT ![r] = e]
    /\ pc' = [pc EXCEPT ![r] = "error"]
    /\ trace' = [trace EXCEPT ![r] = Append(@, stage)]

\* express.static: a GET of a file of the public directory is answered
\* here, every other request is passed on
StaticOutcome(method, path) ==
    IF method = "GET" /\ path = StaticFile THEN Sends(200) ELSE CallsNext

Static(r) ==
    /\ pc[r] = "static"
    /\ cur = 0
    /\ End(r, "static", StaticOutcome(req[r].method, req[r].path), Str("file"))
    /\ UNCHANGED <<store, env, req, err, cur, nreq, logged, ops, store0>>

\* bodyParser.json / urlencoded: the body has been read; a body that does
\* not parse is an error of status 400.  The synchronous run of the
\* remaining chain starts here.
BodyParser(r) ==
    /\ pc[r] = "bodyParser"
    /\ cur = 0
    /\ \E parsed \in BOOLEAN :
           IF parsed
           THEN End(r, "bodyParser", CallsNext, Undef) /\ UNCHANGED err
           ELSE /\ Fail(r, "bodyParser", [status |-> Num(400), message |-> "parse failed"])
                /\ UNCHANGED resp
    /\ cur' = r
    /\ UNCHANGED <<store, env, req, nreq, logged, ops, store0>>

Release_AfterEveryStage(r) == cur' = 0

\* the response is written: the synchronous run is over
Release(r) == cur' = IF pc'[r] = "done" THEN 0 ELSE cur

Logger(r) ==
    /\ pc[r] = "logger"
    /\ cur = r
    /\ logged' = [logged EXCEPT ![r] = <<req[r].method, req[r].path>>]
    /\ End(r, "logger", CallsNext, Undef)
    /\ UNCHANGED <<store, env, req, err, cur, nreq, ops, store0>>

VersionGateOutcome_RejectsSupported(versionWanted) ==
    IF versionWanted # Undef /\ versionWanted = Str("1.0")
    THEN Sends(406)
    ELSE CallsNext

VersionGateOutcome_NoElse(versionWanted) ==
    IF versionWanted # Undef /\ versionWanted # Str("1.0")
    THEN [send |-> 406, next |-> TRUE]
    ELSE CallsNext

VersionGateOutcome_RequiresHeader(versionWanted) ==
    IF versionWanted # Str("1.0")
    THEN Sends(406)
    ELSE CallsNext

VersionGateOutcome(versionWanted) ==
    IF versionWanted # Undef /\ versionWanted # Str("1.0")
    THEN Sends(406)
    ELSE CallsNext

VersionGate(r) ==
    /\ pc[r] = "versionGate"
    /\ cur = r
    /\ End(r, "versionGate", VersionGateOutcome(req[r].version),
           Str("Accept-Version cannot be fulfilled"))
    /\ Release(r)
    /\ UNCHANGED <<store, env, req, err, nreq, logged, ops, store0>>

ContentGateOutcome_NoAcceptCheck(method, ct, acc) ==
    IF method \in {"POST", "PUT"} /\ ~RegexTestJson(ct)
    THEN Sends(415)
    ELSE CallsNext

ContentGateOutcome_PostOnly(method, ct, acc) ==
    IF method \in {"POST"} /\ ~RegexTestJson(ct)
    THEN Sends(415)
    ELSE IF ~AcceptsJson(acc)
    THEN Sends(406)
    ELSE CallsNext

ContentGateOutcome_SilentOn406(method, ct, acc) ==
    IF method \in {"POST", "PUT"} /\ ~RegexTestJson(ct)
    THEN Sends(415)
    ELSE IF ~AcceptsJson(acc)
    THEN [send |-> 0, next |-> FALSE]
    ELSE CallsNext

ContentGateOutcome(method, ct, acc) ==
    IF method \in {"POST", "PUT"} /\ ~RegexTestJson(ct)
    THEN Sends(415)
    ELSE IF ~AcceptsJson(acc)
    THEN Sends(406)
    ELSE CallsNext

\* the Content-Type is read for a POST or PUT only (the && of line 50 ends
\* at the method test for the other methods)
ContentGate(r) ==
    /\ pc[r] = "contentGate"
    /\ cur = r
    /\ \E ct \in IF req[r].method \in {"POST", "PUT"} THEN ContentTypes ELSE {Unread},
          acc \in Accepts :
        /\ req' = [req EXCEPT ![r].ct = ct, ![r].accept = acc]
        /\ LET o == ContentGateOutcome(req[r].method, ct, acc)
           IN  End(r, "contentGate", o,
                   IF o.send = 415 THEN Str("wrong Content-Type")
                   ELSE Str("response of application/json only supported"))
    /\ Release(r)
    /\ UNCHANGED <<store, env, err, nreq, logged, ops, store0>>

(***************************************************************************)
(* The routes.  The router calls the handler whose method and path match;  *)
(* an exception in the handler goes to the error handlers.                 *)
(***************************************************************************)
AtRoute(r, m, p) ==
    /\ pc[r] = "router"
    /\ cur = r
    /\ req[r].method = m
    /\ req[r].path = p

\* the handler of slot r runs with result res = [st, ops, out]
Handle(r, res) ==
    /\ store' = res.st
    /\ ops' = [ops EXCEPT ![r] = @ \o res.ops]
    /\ IF IsThrow(res.out)
       THEN /\ Fail(r, RouteStage(req[r]), [status |-> Undef, message |-> res.out.v])
            /\ UNCHANGED <<resp, cur>>
       ELSE /\ End(r, RouteStage(req[r]), Sends(res.out.status), res.out.body)
            /\ cur' = 0
            /\ UNCHANGED err
    /\ UNCHANGED <<env, nreq, logged, store0>>

RouteGetTweets(r) ==
    /\ AtRoute(r, "GET", "/tweets")
    /\ Handle(r, GetTweets(store))
    /\ UNCHANGED req

RoutePostTweets(r) ==
    /\ AtRoute(r, "POST", "/tweets")
    /\ \E body \in TweetBodies(store) :
        /\ req' = [req EXCEPT ![r].body = Obj(body)]
        /\ Handle(r, PostTweets(store, body))

RouteGetTweet(r) ==
    /\ AtRoute(r, "GET", "/tweets/:id")
    /\ \E id \in ParamIds(store) :
        /\ req' = [req EXCEPT ![r].id = id]
        /\ Handle(r, GetTweet(store, id))

RouteDeleteTweet(r) ==
    /\ AtRoute(r, "DELETE", "/tweets/:id")
    /\ \E id \in ParamIds(store) :
        /\ req' = [req EXCEPT ![r].id = id]
        /\ Handle(r, DeleteTweet(store, id))

RoutePutTweet(r) ==
    /\ AtRoute(r, "PUT", "/tweets/:id")
    /\ \E id \in ParamIds(store), body \in TweetBodies(store) :
        /\ req' = [req EXCEPT ![r].id = id, ![r].body = Obj(body)]
        /\ Handle(r, PutTweet(store, id, body))

RouteGetAccounts(r) ==
    /\ AtRoute(r, "GET", "/accounts")
    /\ Handle(r, GetAccounts(store))
    /\ UNCHANGED req

RoutePostAccounts(r) ==
    /\ AtRoute(r, "POST", "/accounts")
    /\ \E body \in AccountBodies :
        /\ req' = [req EXCEPT ![r].body = Obj(body)]
        /\ Handle(r, PostAccounts(store, body))

RouteGetAccount(r) ==
    /\ AtRoute(r, "GET", "/accounts/:id")
    /\ \E id \in ParamIds(store) :
        /\ req' = [req EXCEPT ![r].id = id]
        /\ Handle(r, GetAccount(store, id))

RouteDeleteAccount(r) ==
    /\ AtRoute(r, "DELETE", "/accounts/:id")
    /\ \E id \in ParamIds(store) :
        /\ req' = [req EXCEPT ![r].id = id]
        /\ Handle(r, DeleteAccount(store, id))

RouteGetAccountTweets(r) ==
    /\ AtRoute(r, "GET", "/accounts/:id/tweets")
    /\ \E id \in ParamIds(store) :
        /\ req' = [req EXCEPT ![r].id = id]
        /\ Handle(r, GetAccountTweets(store, id))

RoutePutAccount(r) ==
    /\ AtRoute(r, "PUT", "/accounts/:id")
    /\ \E id \in ParamIds(store), body \in AccountBodies :
        /\ req' = [req EXCEPT ![r].id = id, ![r].body = Obj(body)]
        /\ Handle(r, PutAccount(store, id, body))

CatchAll_NoStatus(r) ==
    /\ pc[r] = "router"
    /\ cur = r
    /\ <<req[r].method, req[r].path>> \notin Routes
    /\ Fail(r, "catchAll", [status |-> Undef, message |-> "Not Found"])
    /\ UNCHANGED <<store, env, req, resp, cur, nreq, logged, ops, store0>>

\* catch-all: no route matched
CatchAll(r) ==
    /\ pc[r] = "router"
    /\ cur = r
    /\ <<req[r].method, req[r].path>> \notin Routes
    /\ Fail(r, "catchAll", [status |-> Num(404), message |-> "Not Found"])
    /\ UNCHANGED <<store, env, req, resp, cur, nreq, logged, ops, store0>>

StatusOr500_IgnoresStatus(e) == 500

\* err.status || 500
StatusOr500(e) == IF e.status.k = "number" /\ e.status.v # 0 THEN e.status.v ELSE 500

\* development error handler: registered only when env is "development";
\* it answers and does not call next
DevErrorHandler(r) ==
    /\ pc[r] = "error"
    /\ cur = r
    /\ env = "development"
    /\ End(r, "errorDev", Sends(StatusOr500(err[r])),
           Obj([error |-> Obj([message |-> Str(err[r].message),
                               error |-> Str("stack")])]))
    /\ cur' = 0
    /\ UNCHANGED <<store, env, req, err, nreq, logged, ops, store0>>

ProdErrorHandler_RegisteredFirst(r) ==
    /\ pc[r] = "error"
    /\ cur = r
    /\ End(r, "errorProd", Sends(StatusOr500(err[r])),
           Obj([error |-> Obj([message |-> Str(err[r].message),
                               error |-> Obj(EmptyObj)])]))
    /\ cur' = 0
    /\ UNCHANGED <<store, env, req, err, nreq, logged, ops, store0>>

\* production error handler: the first error handler when env is not
\* "development"
ProdErrorHandler(r) ==
    /\ pc[r] = "error"
    /\ cur = r
    /\ env # "development"
    /\ End(r, "errorProd", Sends(StatusOr500(err[r])),
           Obj([error |-> Obj([message |-> Str(err[r].message),
                               error |-> Obj(EmptyObj)])]))
    /\ cur' = 0
    /\ UNCHANGED <<store, env, req, err, nreq, logged, ops, store0>>

\* the stages that read nothing new from the request's headers
RunStage(r) ==
    \/ Static(r)
    \/ BodyParser(r)
    \/ Logger(r)
    \/ VersionGate(r)
    \/ RouteGetTweets(r)
    \/ RoutePostTweets(r)
    \/ RouteGetTweet(r)
    \/ RouteDeleteTweet(r)
    \/ RoutePutTweet(r)
    \/ RouteGetAccounts(r)
    \/ RoutePostAccounts(r)
    \/ RouteGetAccount(r)
    \/ RouteDeleteAccount(r)
    \/ RouteGetAccountTweets(r)
    \/ RoutePutAccount(r)
    \/ CatchAll(r)
    \/ DevErrorHandler(r)
    \/ ProdErrorHandler(r)

Step(r) ==
    \/ Receive(r)
    \/ ContentGate(r)
    \/ RunStage(r)

Next == \E r \in Slots : Step(r)

Spec == Init /\ [][Next]_vars

\* a pending callback of a request in flight (file lookup done, body read,
\* next() called) is run by the event loop
Serve(r) == pc[r] \notin {"idle", "done"} /\ Step(r)

\* the runs in which progress is checked take MaxLiveReqs requests
LiveReceive(r) == Receive(r) /\ nreq' <= MaxLiveReqs

LiveNext == \E r \in Slots : LiveReceive(r) \/ ContentGate(r) \/ RunStage(r)

\* every operation completes: the event loop runs the callbacks of the
\* requests in flight
LiveSpec == Init /\ [][LiveNext]_vars /\ WF_vars(\E r \in Slots : Serve(r))

\* the requests of the concurrent runs are those that both gates let
\* through (what the gates do with the others does not depend on the
\* requests in flight)
Negotiable(q) ==
    /\ q.version \in {Unread, Undef}
    /\ q.accept \in {Unread, Undef}
    /\ q.ct \in {Unread, Str(<<"application/json", "; charset=utf-8">>)}

\* the concurrent runs take as many requests as there are slots
ConcurrentReceive(r) ==
    /\ Receive(r)
    /\ Negotiable(req'[r])
    /\ nreq' <= Cardinality(AllSlots)

ConcurrentContentGate(r) == ContentGate(r) /\ Negotiable(req'[r])

\* several requests in flight: while one request waits for its file lookup
\* or its body (static, bodyParser), another may arrive and run
NextConcurrent ==
    \E r \in AllSlots :
        ConcurrentReceive(r) \/ ConcurrentContentGate(r) \/ RunStage(r)

ConcurrentSpec == Init /\ [][NextConcurrent]_vars

(***************************************************************************)
(* Properties.                                                             *)
(***************************************************************************)
Done(r) == pc[r] = "done"
\* the request carries an Accept-Version header that is not "1.0"
BadVersion(q) == q.version.k = "string" /\ q.version # Str("1.0")
\* the body parser rejected the body of the request
ParseFailed(r) == err[r].status = Num(400)
\* the content negotiation gate has read the headers of the request
AtContentGate(q) == q.accept # Unread
Mutating(q) == q.method \in {"POST", "PUT"}

\* C1 (as stated): every request with an Accept-Version header other than
\* "1.0" ends with status 406, whatever its method, path and body are.
C1_AnyBadVersionIs406 ==
    \A r \in Slots : Done(r) /\ BadVersion(req[r]) => resp[r].status = 406

\* C1 (amended): a request with an Accept-Version header other than "1.0"
\* ends with the 406 of the version gate, for every method and path and
\* without its Content-Type or Accept being read, unless a middleware
\* registered before the gate has ended it: a GET of a static file is
\* answered 200 and a body that does not parse is answered 400.
C1_BadVersionIs406AtGate ==
    \A r \in Slots : Done(r) /\ BadVersion(req[r]) =>
        \/ /\ req[r].method = "GET" /\ req[r].path = StaticFile
           /\ resp[r].by = "static" /\ resp[r].status = 200
        \/ /\ ParseFailed(r)
           /\ resp[r].status = 400
        \/ /\ resp[r].status = 406
           /\ resp[r].by = "versionGate"
           /\ ~AtContentGate(req[r])

\* a POST to a path without route that carries Accept-Version 2.0 has been
\* answered by the version gate
C1_Witness ==
    \E r \in Slots :
        /\ Done(r) /\ BadVersion(req[r])
        /\ req[r].method = "POST" /\ req[r].path = "/unknown"
        /\ resp[r].by = "versionGate"

\* C2 (as stated): every request that reaches the content negotiation gate
\* with an Accept header that excludes JSON ends with status 406, also a
\* POST or PUT whose Content-Type is not JSON.
C2_AcceptRuleAlways ==
    \A r \in Slots :
        Done(r) /\ AtContentGate(req[r]) /\ ~AcceptsJson(req[r].accept)
            => resp[r].status = 406

\* C2 (amended): a request that reaches the content negotiation gate with
\* an Accept header that excludes JSON ends with status 406 unless it is a
\* POST or PUT whose Content-Type is not JSON: the Content-Type check comes
\* first, and such a request ends with status 415 whatever its Accept is.
C2_AcceptRuleAfterContentType ==
    \A r \in Slots :
        Done(r) /\ AtContentGate(req[r]) /\ ~AcceptsJson(req[r].accept) =>
            /\ resp[r].by = "contentGate"
            /\ resp[r].status =
                 IF Mutating(req[r]) /\ ~RegexTestJson(req[r].ct) THEN 415 ELSE 406

\* a POST with a JSON Content-Type and Accept: text/html has been answered
C2_Witness ==
    \E r \in Slots :
        /\ Done(r) /\ req[r].method = "POST"
        /\ RegexTestJson(req[r].ct) /\ req[r].accept = Str(<<"text/html">>)
        /\ resp[r].status = 406

Before(r, a, b) ==
    \A i \in 1..Len(trace[r]) :
        trace[r][i] = b => \E j \in 1..(i - 1) : trace[r][j] = a
Logged(r) == logged[r] = <<req[r].method, req[r].path>>
\* the two gates let the request through
GatesPassed(q) ==
    /\ q.version \in {Undef, Str("1.0")}
    /\ AtContentGate(q)
    /\ AcceptsJson(q.accept)
    /\ Mutating(q) => RegexTestJson(q.ct)
\* the stages run in the order logger, version gate, content negotiation
\* gate, route handler, and a handler runs only for a request that both
\* gates let through
StagesInOrder(r) ==
    /\ Before(r, "logger", "versionGate")
    /\ Before(r, "versionGate", "contentGate")
    /\ \A i \in 1..Len(trace[r]) :
           trace[r][i] \in RouteStages \cup {"catchAll"} =>
               /\ \E j \in 1..(i - 1) : trace[r][j] = "contentGate"
               /\ GatesPassed(req[r])
               /\ Logged(r)
               /\ resp[r].by \notin {"versionGate", "contentGate"}

\* C4 (as stated): the logger records method and path of every request
\* received, whatever response it ends with; the version gate runs before
\* the content negotiation gate and both have let the request through
\* before a route handler runs.
C4_EveryRequestLogged ==
    \A r \in Slots :
        /\ Done(r) => Logged(r)
        /\ StagesInOrder(r)

\* C4 (amended): the logger records method and path of every request that
\* reaches it, which is every request except a GET of a static file and a
\* request whose body does not parse (these are answered by the middleware
\* registered before the logger, and nothing is logged for them); the
\* version gate runs before the content negotiation gate and both have let
\* the request through before a route handler runs.
C4_LoggedUnlessEndedEarlier ==
    \A r \in Slots :
        /\ Ran(r, "logger") => Logged(r)
        /\ Done(r) /\ ~Logged(r) =>
               /\ logged[r] = <<>>
               /\ \/ resp[r].by = "static" /\ req[r].method = "GET"
                                           /\ req[r].path = StaticFile
                  \/ ParseFailed(r)
        /\ Done(r) /\ resp[r].by # "static" /\ ~ParseFailed(r) => Logged(r)
        /\ StagesInOrder(r)

\* a route handler has answered a logged request
C4_Witness ==
    \E r \in Slots :
        /\ Done(r) /\ RanRoute(r) /\ Logged(r)
        /\ trace[r][3] = "logger" /\ trace[r][4] = "versionGate"
        /\ trace[r][5] = "contentGate"

\* C5: a request that a gate ended (406 of the version gate, 415 or 406 of
\* the content negotiation gate) has called no store operation and the
\* store is as it was when the request arrived.
C5_NegotiationFailureLeavesStore ==
    \A r \in Slots :
        resp[r].by \in {"versionGate", "contentGate"} =>
            /\ resp[r].status \in {406, 415}
            /\ ops[r] = <<>>
            /\ ~RanRoute(r)
            /\ store = store0[r]

\* a gate has ended the second request, on a store the first one changed
C5_Witness ==
    \E r \in Slots :
        /\ Done(r) /\ resp[r].by = "contentGate" /\ resp[r].status = 415
        /\ store # InitStore

\* the bidirectional invariant of the data model: the account of every
\* stored tweet is a stored account, and every entry of the tweets of a
\* stored account is a stored tweet whose account is that account
Stored(st, kind) == SeqRange(st.mem[kind])
Bidirectional(st) ==
    /\ \A t \in Stored(st, "tweets") :
           LET a == Field(st.heap[t], "account")
           IN  a.k = "object" /\ a.v \in Stored(st, "accounts")
    /\ \A a \in Stored(st, "accounts") :
           LET ts == Field(st.heap[a], "tweets")
           IN  ts.k = "array" =>
                   \A i \in 1..Len(ts.v) :
                       /\ ts.v[i].k = "object"
                       /\ ts.v[i].v \in Stored(st, "tweets")
                       /\ Field(st.heap[ts.v[i].v], "account") = Ref(a)

\* C6: after any sequence of API requests the store satisfies the
\* bidirectional invariant (it does when the server starts).
C6_StoreKeepsBidirectional ==
    \A r \in Slots : pc[r] \in {"idle", "done"} => Bidirectional(store)

\* the request of slot r is a POST /tweets that a handler took up and whose
\* body names an account that was stored when the request arrived
PostedTweetFor(r) ==
    /\ Done(r) /\ req[r].method = "POST" /\ req[r].path = "/tweets"
    /\ RanRoute(r)
    /\ Field(req[r].body.v, "account") \in AccountIds(store0[r])

\* C7: a POST /tweets whose body has account: A, A the id of a stored
\* account, is answered 201 with the tweetJSON of the stored tweet; the
\* stored tweet holds the account object the store returns for A, not the
\* id; and GET /tweets/:id for the assigned id then returns a tweet whose
\* account field is A.
C7_PostThenGetTweet ==
    \A r \in Slots :
        /\ PostedTweetFor(r) =>
             LET A == Field(req[r].body.v, "account")
                 id == Num(store0[r].counter)
                 t == select(store, "tweets", id)
                 get == GetTweet(store, id)
             IN  /\ resp[r].status = 201
                 /\ ~IsThrow(t)
                 /\ resp[r].body = Serialize(store.heap, tweetJSON(store.heap, t), {})
                 /\ Field(resp[r].body.v, "id") = id
                 /\ Field(resp[r].body.v, "account") = A
                 /\ Get(store.heap, t, "account") = select(store0[r], "accounts", A)
                 /\ Get(store.heap, t, "account").k = "object"
                 /\ get.st = store
                 /\ get.out.k = "response"
                 /\ get.out.status = 200
                 /\ Field(get.out.body.v, "account") = A
        /\ Done(r) /\ req[r].method = "GET" /\ req[r].path = "/tweets/:id"
              /\ resp[r].status = 200 =>
             LET t == select(store, "tweets", req[r].id)
                 a == Get(store.heap, t, "account")
             IN  a.k = "object" =>
                     Field(resp[r].body.v, "account") = Get(store.heap, a, "id")

\* POST /tweets with account: 103 has been answered
C7_Witness ==
    \E r \in Slots :
        /\ PostedTweetFor(r)
        /\ Field(req[r].body.v, "account") = Num(103)
        /\ resp[r].status = 201

\* the objects of the heap that are tweets, stored or removed
TweetObjs(st) == {o \in DOMAIN st.heap : "account" \in DOMAIN st.heap[o]}
\* and those that are accounts
AccountObjs(st) ==
    Stored(st, "accounts") \cup {o \in DOMAIN st.heap : "tweets" \in DOMAIN st.heap[o]}

\* the store is the initial one, or a request has just changed it: every
\* store a behaviour reaches is the store of such a state (a handler that
\* changes the store ends without a further change)
NewStore ==
    \/ nreq = 0
    \/ \E r \in Slots : Done(r) /\ store # store0[r]

\* C8: for every tweet t, tweetJSON(t).account is t.account.id and never the
\* account object; tweetJSON(t) has all the other fields of t and the links
\* href and accounthref; no handler fails because its response body is
\* circular; t is unchanged by tweetJSON, so a GET leaves the heap as it
\* was.
C8_TweetJSONHoldsAccountId ==
    /\ NewStore => \A o \in TweetObjs(store) :
           LET t == store.heap[o]
               j == tweetJSON(store.heap, Ref(o))
           IN  /\ j.k = "literal"
               /\ DOMAIN j.v = DOMAIN t \cup {"href", "account", "accounthref"}
               /\ j.v["account"] = Get(store.heap, t["account"], "id")
               /\ j.v["account"].k # "object"
               /\ t["account"].k = "object" => j.v["account"].k = "number"
               /\ \A f \in DOMAIN t \ {"account"} : j.v[f] = t[f]
               /\ j.v["href"] = Url("tweets", t["id"], "")
               /\ j.v["accounthref"] = Url("accounts", j.v["account"], "")
    /\ \A r \in Slots :
           /\ err[r].message # "circular structure"
           /\ Done(r) /\ req[r].method = "GET" => store.heap = store0[r].heap

\* GET /tweets/:id has been answered with a tweet, on a store changed by
\* the request before
C8_Witness ==
    \E r \in Slots :
        /\ Done(r) /\ req[r].method = "GET" /\ req[r].path = "/tweets/:id"
        /\ resp[r].status = 200
        /\ Field(resp[r].body.v, "account") = Num(103)
        /\ store # InitStore

\* C9: for every account a whose tweets can be projected,
\* accountJSON(a).tweets has the length of a.tweets and its i-th element is
\* tweetJSON(a.tweets[i]); the collection mappers return a sequence of the
\* length and in the order of the sequence the store returned, and so do
\* the bodies of GET /tweets and GET /accounts.
C9_CollectionsKeepLengthAndOrder ==
    /\ NewStore => \A a \in AccountObjs(store) :
           LET ts == Field(store.heap[a], "tweets")
               j == accountJSON(store.heap, Ref(a))
           IN  IF IsThrow(j)
               THEN \/ ts.k # "array"
                    \/ \E i \in 1..Len(ts.v) : IsThrow(tweetJSON(store.heap, ts.v[i]))
               ELSE /\ ts.k = "array"
                    /\ j.v["tweets"].k = "array"
                    /\ Len(j.v["tweets"].v) = Len(ts.v)
                    /\ \A i \in 1..Len(ts.v) :
                           j.v["tweets"].v[i] = tweetJSON(store.heap, ts.v[i])
    /\ NewStore => \A kind \in Kinds :
           LET all == select(store, kind, Undef)
               c == IF kind = "tweets" THEN tweetCollectionJSON(store.heap, all)
                    ELSE accountCollectionJSON(store.heap, all)
           IN  /\ all.k = "array"
               /\ kind = "tweets" => c.k = "array"
               /\ c.k = "array" =>
                      /\ Len(c.v) = Len(all.v)
                      /\ \A i \in 1..Len(c.v) :
                             Field(c.v[i].v, "id") = Get(store.heap, all.v[i], "id")
    /\ \A r \in Slots :
           Done(r) /\ req[r].method = "GET" /\ resp[r].status = 200
                   /\ req[r].path \in {"/tweets", "/accounts"} =>
               LET kind == IF req[r].path = "/tweets" THEN "tweets" ELSE "accounts"
               IN  /\ resp[r].body.k = "array"
                   /\ Len(resp[r].body.v) = Len(store.mem[kind])
                   /\ \A i \in 1..Len(resp[r].body.v) :
                          Field(resp[r].body.v[i].v, "id")
                              = store.heap[store.mem[kind][i]]["id"]

\* GET /accounts has been answered with the two accounts, each with its
\* tweet
C9_Witness ==
    \E r \in Slots :
        /\ Done(r) /\ req[r].method = "GET" /\ req[r].path = "/accounts"
        /\ resp[r].status = 200
        /\ Len(resp[r].body.v) = 2
        /\ Len(resp[r].body.v[1].v["tweets"].v) = 1

\* C10: every POST /accounts that passes the gates inserts the body as a
\* new account and is answered 201 with the accountJSON of the stored
\* account, for every JSON object body.
C10_PostAccountsIs201 ==
    \A r \in Slots :
        Done(r) /\ req[r].method = "POST" /\ req[r].path = "/accounts"
                /\ RanRoute(r) =>
            LET a == select(store, "accounts", Num(store0[r].counter))
            IN  /\ ~IsThrow(a)
                /\ resp[r].status = 201
                /\ resp[r].body = Serialize(store.heap, accountJSON(store.heap, a), {})

\* the five resources a GET reads
GetPaths == {"/tweets", "/tweets/:id", "/accounts", "/accounts/:id",
             "/accounts/:id/tweets"}
\* the request of slot r is a GET of a resource that its handler took up
GetHandled(r) ==
    /\ Done(r) /\ req[r].method = "GET" /\ req[r].path \in GetPaths
    /\ RanRoute(r)
\* the handler of a GET of path p with parameter id, run on the store st
GetHandler(st, p, id) ==
    CASE p = "/tweets" -> GetTweets(st)
      [] p = "/tweets/:id" -> GetTweet(st, id)
      [] p = "/accounts" -> GetAccounts(st)
      [] p = "/accounts/:id" -> GetAccount(st, id)
      [] p = "/accounts/:id/tweets" -> GetAccountTweets(st, id)
\* the response resp is the one the outcome out of a handler leads to
Answers(resp1, out) ==
    IF IsThrow(out)
    THEN /\ resp1.status = 500
         /\ resp1.body.v["error"].v["message"] = Str(out.v)
    ELSE /\ resp1.status = out.status
         /\ resp1.body = out.body

\* C11: a GET of a resource leaves the store as it was when the request
\* arrived and calls select only; the same GET repeated on the store it
\* left behind (no POST, PUT or DELETE between) has the same outcome, so
\* its response is identical to the one sent, and it leaves the store
\* unchanged again.
C11_GetIsReadOnlyAndRepeatable ==
    \A r \in Slots :
        GetHandled(r) =>
            LET again == GetHandler(store, req[r].path, req[r].id)
            IN  /\ store = store0[r]
                /\ ops[r] = <<"select">>
                /\ again.st = store
                /\ Answers(resp[r], again.out)
                /\ GetHandler(again.st, req[r].path, req[r].id) = again

\* the second request is a GET /accounts/:id answered with an account, on a
\* store the first request left as it was at startup
C11_Witness ==
    \E r \in Slots :
        /\ GetHandled(r) /\ nreq = 2
        /\ req[r].path = "/accounts/:id" /\ req[r].id = Num(103)
        /\ resp[r].status = 200
        /\ store = InitStore

\* both gates have let the request of slot r through
PassedGates(r) == Ran(r, "contentGate") /\ GatesPassed(req[r])
NoRoute(q) == <<q.method, q.path>> \notin Routes
\* error.message of an error response body
ErrorMessage(body) == body.v["error"].v["message"]

\* C12: a request that both gates let through and whose method and path
\* have no route goes to the catch-all and ends with status 404 and a JSON
\* body whose error.message is "Not Found"; no route handler runs for it,
\* it calls no store operation and the store stays as it was.
C12_NoRouteIs404 ==
    \A r \in Slots :
        PassedGates(r) /\ NoRoute(req[r]) =>
            /\ ~RanRoute(r)
            /\ ops[r] = <<>>
            /\ store = store0[r]
            /\ pc[r] \in {"router", "error", "done"}
            /\ pc[r] # "router" => Ran(r, "catchAll") /\ err[r].message = "Not Found"
            /\ Done(r) =>
                   /\ resp[r].status = 404
                   /\ resp[r].by \in {"errorDev", "errorProd"}
                   /\ resp[r].body.k = "literal"
                   /\ ErrorMessage(resp[r].body) = Str("Not Found")

\* GET /unknown has been answered 404 after a first request changed the
\* store
C12_Witness ==
    \E r \in Slots :
        /\ Done(r) /\ req[r].method = "GET" /\ req[r].path = "/unknown"
        /\ resp[r].status = 404
        /\ ErrorMessage(resp[r].body) = Str("Not Found")
        /\ store # InitStore

\* a stage of the request of slot r has raised a failure
Failed(r) == err[r] # NoErr
ErrorResponders == {"errorDev", "errorProd"}

\* C13: a request for which a middleware or a handler raised a failure goes
\* to the error responder and nowhere else; its response has the status
\* attribute of the failure, or 500 when the failure has none, and a JSON
\* body { error: { message, error } } with the failure's message; it is
\* never a success response, and the error responder answers failed
\* requests only.
C13_FailureEndsAtErrorResponder ==
    \A r \in Slots :
        /\ Failed(r) =>
             /\ pc[r] \in {"error", "done"}
             /\ Done(r) =>
                  /\ resp[r].by \in ErrorResponders
                  /\ resp[r].status =
                        IF err[r].status = Undef THEN 500 ELSE err[r].status.v
                  /\ resp[r].status >= 400
                  /\ resp[r].body.k = "literal"
                  /\ DOMAIN resp[r].body.v = {"error"}
                  /\ resp[r].body.v["error"].k = "literal"
                  /\ DOMAIN resp[r].body.v["error"].v = {"message", "error"}
                  /\ ErrorMessage(resp[r].body) = Str(err[r].message)
        /\ resp[r].by \in ErrorResponders => Failed(r)
        /\ pc[r] = "error" => Failed(r) /\ resp[r] = NoResp

\* a handler failed without a status (GET /accounts/999/tweets) and the
\* request has been answered 500
C13_Witness ==
    \E r \in Slots :
        /\ Done(r) /\ Failed(r) /\ err[r].status = Undef
        /\ req[r].path = "/accounts/:id/tweets" /\ req[r].id = Num(MissingId)
        /\ resp[r].status = 500

\* the number of times a stage of the set S has run for the request of slot r
TimesRan(r, S) == Cardinality({i \in 1..Len(trace[r]) : trace[r][i] \in S})
\* verbose mode: the development error handler is registered
Verbose == env = "development"
\* error.error of an error response body
ErrorDetail(body) == body.v["error"].v["error"]
\* the error response of every failed request has the shape of the mode,
\* and one error responder has written it
ErrorShapeByMode ==
    \A r \in Slots :
        /\ Done(r) /\ Failed(r) =>
             /\ TimesRan(r, ErrorResponders) = 1
             /\ resp[r].by = IF Verbose THEN "errorDev" ELSE "errorProd"
             /\ Ran(r, resp[r].by)
             /\ ErrorDetail(resp[r].body) =
                    IF Verbose THEN Str("stack") ELSE Obj(EmptyObj)
        /\ ~Verbose => ~Ran(r, "errorDev")
        /\ Verbose => ~Ran(r, "errorProd")

\* C14: in quiet mode error.error of every error response is the empty
\* object, in verbose mode it is the stack; exactly one of the two error
\* responders writes the response of a failed request; and the mode is
\* fixed at startup: no step of any request changes it.
C14_ErrorDetailFixedByMode ==
    /\ []ErrorShapeByMode
    /\ [][env' = env]_vars

\* in quiet mode a failed POST /accounts has been answered with an empty
\* error.error
C14_Witness ==
    \E r \in Slots :
        /\ ~Verbose /\ Done(r) /\ Failed(r)
        /\ req[r].method = "POST" /\ req[r].path = "/accounts"
        /\ resp[r].by = "errorProd"
        /\ ErrorDetail(resp[r].body) = Obj(EmptyObj)

\* the collection a path with an id parameter addresses
KindOf(p) == IF p = "/tweets/:id" THEN "tweets" ELSE "accounts"
\* the request of slot r is a request of method m for one entity that has
\* been answered 200
Answered200(r, m) ==
    /\ Done(r) /\ req[r].method = m
    /\ req[r].path \in {"/tweets/:id", "/accounts/:id"}
    /\ resp[r].status = 200

\* C15: once DELETE /tweets/:id (DELETE /accounts/:id) has been answered
\* 200, the entity was stored before and is stored no longer, and a GET of
\* the same id on the store left behind fails at the lookup; a GET of one
\* entity is answered 200 only for an id that is stored, so the GET that
\* follows the DELETE ends with the failure status 500 and never with the
\* deleted entity.  Ids are not assigned twice, so this also holds across
\* later inserts.
C15_DeletedEntityIsGone ==
    \A r \in Slots :
        /\ Answered200(r, "DELETE") =>
             LET kind == KindOf(req[r].path)
                 get == GetHandler(store, req[r].path, req[r].id)
             IN  /\ Holds(store0[r], kind, req[r].id) # {}
                 /\ Holds(store, kind, req[r].id) = {}
                 /\ IsThrow(get.out)
                 /\ get.st = store
        /\ Answered200(r, "GET") =>
             /\ Holds(store0[r], KindOf(req[r].path), req[r].id) # {}
             /\ Field(resp[r].body.v, "id") = req[r].id
        /\ Done(r) /\ req[r].method = "GET" /\ RanRoute(r)
                   /\ req[r].path \in {"/tweets/:id", "/accounts/:id"}
                   /\ Holds(store0[r], KindOf(req[r].path), req[r].id) = {} =>
             /\ resp[r].status = 500
             /\ resp[r].by \in ErrorResponders
        /\ \A kind \in Kinds :
               \A o \in Stored(store, kind) : store.heap[o]["id"].v < store.counter

\* the first request removed tweet 101 and the second, GET /tweets/101, has
\* been answered 500
C15_Witness ==
    \E r \in Slots :
        /\ Done(r) /\ req[r].method = "GET" /\ req[r].path = "/tweets/:id"
        /\ req[r].id = Num(101)
        /\ Holds(store, "tweets", Num(101)) = {}
        /\ resp[r].status = 500

\* the ids of the stored tweets whose account is the stored account with
\* the id `id`
OwnedTweetIds(st, id) ==
    {st.heap[t]["id"] : t \in {u \in Stored(st, "tweets") :
        \E a \in Holds(st, "accounts", id) : Field(st.heap[u], "account") = Ref(a)}}
\* the ids of the tweets of a response body that is an array of tweetJSON
BodyTweetIds(body) == {Field(body.v[i].v, "id") : i \in 1..Len(body.v)}

\* C16: after any sequence of requests, the body of a GET
\* /accounts/:id/tweets answered 200 holds exactly the stored tweets whose
\* account is that account, each once: a tweet posted with account A is in
\* it and a deleted tweet is not.
C16_AccountTweetsAreOwnedTweets ==
    \A r \in Slots :
        Done(r) /\ req[r].method = "GET" /\ req[r].path = "/accounts/:id/tweets"
                /\ resp[r].status = 200 =>
            /\ resp[r].body.k = "array"
            /\ BodyTweetIds(resp[r].body) = OwnedTweetIds(store, req[r].id)
            /\ Len(resp[r].body.v) = Cardinality(OwnedTweetIds(store, req[r].id))

\* C17: the version gate answers a request that reaches it exactly when the
\* request has an Accept-Version header other than "1.0"; a request
\* without the header, or with "1.0", is not answered by the version gate
\* and goes on to the content negotiation gate, which runs next for it.
C17_VersionGatePassesAbsentOr10 ==
    \A r \in Slots :
        /\ Ran(r, "versionGate") =>
             /\ resp[r].by = "versionGate" <=> req[r].version \notin {Undef, Str("1.0")}
             /\ req[r].version \in {Undef, Str("1.0")} =>
                    \/ pc[r] = "contentGate"
                    \/ /\ Ran(r, "contentGate")
                       /\ Before(r, "versionGate", "contentGate")
             /\ req[r].version \notin {Undef, Str("1.0")} =>
                    /\ Done(r)
                    /\ ~Ran(r, "contentGate")
        /\ resp[r].by = "versionGate" => Ran(r, "versionGate") /\ resp[r].status = 406

\* a request without Accept-Version has passed the version gate and has
\* been answered 406 by the content negotiation gate
C17_Witness ==
    \E r \in Slots :
        /\ Done(r) /\ req[r].version = Undef
        /\ Ran(r, "versionGate")
        /\ resp[r].by = "contentGate" /\ resp[r].status = 406

\* the request of slot r is in the synchronous run from the logger to its
\* response
InSync(r) == pc[r] \in {"logger", "versionGate", "contentGate", "router", "error"}
\* the handler of the route of request q, run on the store st
RouteHandler(st, q) ==
    IF q.method = "GET" THEN GetHandler(st, q.path, q.id)
    ELSE CASE RouteStage(q) = "POST /tweets" -> PostTweets(st, q.body.v)
           [] RouteStage(q) = "DELETE /tweets/:id" -> DeleteTweet(st, q.id)
           [] RouteStage(q) = "PUT /tweets/:id" -> PutTweet(st, q.id, q.body.v)
           [] RouteStage(q) = "POST /accounts" -> PostAccounts(st, q.body.v)
           [] RouteStage(q) = "DELETE /accounts/:id" -> DeleteAccount(st, q.id)
           [] RouteStage(q) = "PUT /accounts/:id" -> PutAccount(st, q.id, q.body.v)
\* at most one request is in its synchronous run, it is the one the loop
\* runs, and a POST /tweets answered 201 has called select, insert, select
\* and returns a tweet with an id of its own and the text of its own body
HandlersDoNotInterleave ==
    /\ \A r, s \in AllSlots : InSync(r) /\ InSync(s) => r = s
    /\ \A r \in AllSlots : InSync(r) <=> cur = r
    /\ \A r \in AllSlots :
           Done(r) /\ RouteStage(req[r]) = "POST /tweets" /\ resp[r].status = 201 =>
               /\ ops[r] = <<"select", "insert", "select">>
               /\ Field(resp[r].body.v, "text") = Field(req[r].body.v, "text")
               /\ Field(resp[r].body.v, "account") = Field(req[r].body.v, "account")
               /\ Field(resp[r].body.v, "id").v >= store0[r].counter
               /\ Field(resp[r].body.v, "id").v < store.counter
               /\ \A s \in AllSlots \ {r} :
                      Done(s) /\ RouteStage(req[s]) = "POST /tweets"
                              /\ resp[s].status = 201 =>
                          Field(resp[s].body.v, "id") # Field(resp[r].body.v, "id")
\* every step that changes the store, a response or the list of store
\* calls of a request is the step of one request, and a step of a route is
\* the whole handler run on the store as it is: the behaviour is the
\* serial run of the handlers in the order in which they start
StepsAreSerial ==
    \A r \in AllSlots :
        /\ pc[r] = "router" /\ pc'[r] # "router" /\ ~NoRoute(req[r]) =>
             LET res == RouteHandler(store, req'[r])
             IN  /\ store' = res.st
                 /\ ops'[r] = ops[r] \o res.ops
                 /\ IF IsThrow(res.out)
                    THEN pc'[r] = "error" /\ err'[r].message = res.out.v
                    ELSE /\ pc'[r] = "done"
                         /\ resp'[r].status = res.out.status
                         /\ resp'[r].body = res.out.body
                 /\ \A s \in AllSlots \ {r} :
                        /\ resp'[s] = resp[s] /\ ops'[s] = ops[s]
                        /\ pc'[s] = pc[s] /\ err'[s] = err[s]
        /\ pc[r] # "router" /\ trace'[r] # trace[r] => store' = store
        /\ Len(ops'[r]) > Len(ops[r]) => pc[r] = "router" /\ cur = r

\* C18: with two requests in flight, the synchronous runs of two requests
\* never overlap, every change of the store is one whole handler run on the
\* current store, so store and responses are those of the serial order in
\* which the handlers start, and a POST /tweets returns the tweet it has
\* inserted.
C18_HandlersRunSerially ==
    /\ []HandlersDoNotInterleave
    /\ [][StepsAreSerial]_vars

\* two POST /tweets were in flight together: the second arrived while the
\* first was waiting for its body, and both have been answered 201
C18_Witness ==
    /\ \A r \in AllSlots :
           /\ Done(r) /\ RouteStage(req[r]) = "POST /tweets"
           /\ resp[r].status = 201
    /\ store0[1] = InitStore /\ store0[2] = InitStore
    /\ Field(resp[2].body.v, "id") = Num(105)
    /\ Field(resp[1].body.v, "id") = Num(106)

\* the request of slot r has been received and not yet answered
InFlight(r) == pc[r] \notin {"idle", "done"}
\* the stages that write a response
Responders == {"static", "versionGate", "contentGate"} \cup RouteStages
                  \cup ErrorResponders
\* a request is done exactly when its response is written; the response is
\* written by the last stage that ran for it and by no other, that stage
\* ran once, and a request in flight has a stage to run
OneResponse ==
    \A r \in Slots :
        /\ Done(r) <=> resp[r] # NoResp
        /\ Done(r) =>
             /\ resp[r].by = trace[r][Len(trace[r])]
             /\ resp[r].by \in Responders
             /\ TimesRan(r, {resp[r].by}) = 1
             /\ resp[r].status # 0
             /\ Ran(r, "errorDev") => ~Ran(r, "errorProd")
        /\ InFlight(r) =>
             /\ resp[r] = NoResp
             /\ ENABLED Serve(r)
             /\ pc[r] \in {"static", "bodyParser", "logger", "versionGate",
                           "contentGate", "router", "error"}
\* no stage runs for a request that has been answered, and a response
\* written is not written again
NoSecondWrite ==
    \A r \in Slots :
        resp[r] # NoResp =>
            \/ trace'[r] = trace[r] /\ resp'[r] = resp[r] /\ pc'[r] = pc[r]
            \/ trace'[r] = <<>> /\ resp'[r] = NoResp /\ pc'[r] = "static"

\* C19: every request received is eventually answered, and answered once:
\* each stage either passes the request on or writes the response, a
\* request passed on has a next stage that takes it up (a route, the
\* catch-all, an error responder), and after the response no further stage
\* runs for the request; in verbose mode the second error responder does
\* not run after the first.
C19_EveryRequestAnsweredOnce ==
    /\ []OneResponse
    /\ [][NoSecondWrite]_vars
    /\ \A r \in Slots : InFlight(r) ~> Done(r)

\* in verbose mode a request without route has gone through all stages and
\* has been answered by the first error responder alone
C19_Witness ==
    \E r \in Slots :
        /\ Verbose /\ Done(r)
        /\ trace[r] = <<"static", "bodyParser", "logger", "versionGate",
                        "contentGate", "catchAll", "errorDev">>
        /\ resp[r].by = "errorDev"

\* C20: a request that ends with a failure status (400 and above) leaves
\* the store as it was when the request arrived: a POST /tweets whose
\* account is not stored adds no tweet, and a POST /accounts answered 500
\* has added no account.
C20_FailureLeavesStore ==
    \A r \in Slots :
        Done(r) /\ resp[r].status >= 400 =>
            /\ store = store0[r]
            /\ \A i \in 1..Len(ops[r]) : ops[r][i] # "insert"

====
